---- MODULE Spec2Model ----
(***************************************************************************)
(* Model of src/index.js: the nine tool executors of the browser           *)
(* automation agent, the module-level `browser` / `page` / `ss` state they *)
(* share, and `automate`, which runs the agent and tears the browser down  *)
(* when the run fails.                                                     *)
(*                                                                         *)
(* Playwright and the agent runner are external: every call on `browser`   *)
(* or `page` either succeeds or throws, chosen nondeterministically, and   *)
(* a call on a page that is closed always throws.  The operations an       *)
(* executor attempts are logged in `ops`, in order, for the last call.     *)
(***************************************************************************)
EXTENDS Integers, Sequences, FiniteSets, TLC

VARIABLES
    page,      \* `let page` (index.js:25): 0 is undefined, else a page id
    browser,   \* the process launched at index.js:18: "launched" or "closed"
    pages,     \* ids of the pages of the browser process that are open
    nPages,    \* number of pages created so far by browser.newPage()
    ss,        \* `let ss` (index.js:41): 0 is undefined, else the page captured
    call,      \* the last executor invoked and its input
    result,    \* what the last executor returned, or what it threw
    ops,       \* browser operations attempted by the last call, in order
    pc,        \* automate: "running", "done" (returned) or "failed" (threw)
    raised,    \* the error that left automate, "" when none
    closeRequested  \* the run's conversation holds a close_browser call

vars == <<page, browser, pages, nPages, ss, call, result, ops, pc, raised,
          closeRequested>>

----------------------------------------------------------------------------
(* Bounds and input domains *)

MaxPages == 2

NoPage == 0

Urls == {"", "https://ui.chaicode.com/"}
Descriptions == {"", "login page"}
Coords == {<<>>, <<40>>}            \* <<>> is undefined, <<n>> the number n
Texts == {"natwar@123"}
Deltas == {-300, 300}
Idents == {"Email"}
Values == {"natwar.spam@gmail.com"}
InputTypes == {"", "email"}         \* "" stands for null: falsy at index.js:119
RunErrors == {"oracle transport failure"}

LiveErr == "Timeout 30000ms exceeded"
ClosedErr == "Target page, context or browser has been closed"
CloseErr == "Protocol error: browser disconnected"
SelectorErr == "Unexpected token while parsing selector"

----------------------------------------------------------------------------
(* Results and the operation log *)

Str(parts) == [thrown |-> FALSE, text |-> parts]
Throw(msg) == [thrown |-> TRUE, text |-> <<msg>>]

NoPageResult == Str(<<"No browser page available. Please open browser first.">>)

Op(name, p, sel) == [op |-> name, pg |-> p, sel |-> sel]

\* `${x}` of an optional number
Fmt(x) == IF x = <<>> THEN "undefined" ELSE ToString(x[1])

\* a page operation can succeed only on a page that is still open
Live(p) == p \in pages

\* message of the exception a page operation on p throws
ErrOf(p) == IF Live(p) THEN LiveErr ELSE ClosedErr

\* Index of the first throwing operation among n operations on page p
\* (0: none throws).  On a closed page the first one throws; with no page
\* nothing is attempted.
Fails(n, p) == IF p = NoPage THEN {0} ELSE IF Live(p) THEN 0..n ELSE {1}

\* the operations attempted: all of them, or up to the one that throws
Attempt(names, p, failAt) ==
    [i \in 1..(IF failAt = 0 THEN Len(names) ELSE failAt) |-> Op(names[i], p, 0)]

\* an executor's effect: its result, its log and the module state after it
Eff(res, log) ==
    [result |-> res, ops |-> log, page |-> page, browser |-> browser,
     pages |-> pages, nPages |-> nPages, ss |-> ss]

----------------------------------------------------------------------------
(* The executors.  Each operator is one `execute`, given its input and the *)
(* outcome of the browser operations it performs.                          *)

\* open_browser that launches a new process when the browser was closed
openBrowser_Relaunches(throws) ==
    LET log == <<Op("browser.newPage", 0, 0)>>
    IN  IF browser = "closed"
        THEN [Eff(Str(<<"Opened Browser">>), log) EXCEPT
                 !.browser = "launched",
                 !.page = nPages + 1,
                 !.pages = {nPages + 1},
                 !.nPages = nPages + 1]
        ELSE IF throws
        THEN Eff(Throw(LiveErr), log)
        ELSE [Eff(Str(<<"Opened Browser">>), log) EXCEPT
                 !.page = nPages + 1,
                 !.pages = pages \cup {nPages + 1},
                 !.nPages = nPages + 1]

\* open_browser: newPage throws exactly when `throws`
openBrowser(throws) ==
    LET log == <<Op("browser.newPage", 0, 0)>>
    IN  IF throws
        THEN Eff(Throw(IF browser = "closed" THEN ClosedErr ELSE LiveErr), log)
        ELSE [Eff(Str(<<"Opened Browser">>), log) EXCEPT
                 !.page = nPages + 1,
                 !.pages = pages \cup {nPages + 1},
                 !.nPages = nPages + 1]

\* take_screenshot without the `if (!page)` check of index.js:51
takeScreenShot_NoPageCheck(description, failAt) ==
    LET log == Attempt(<<"page.screenshot">>, page, failAt)
    IN  IF failAt # 0
        THEN Eff(Throw(ErrOf(page)), log)
        ELSE [Eff(Str(<<"Screenshot taken successfully">>), log) EXCEPT
                 !.ss = page]

\* take_screenshot
takeScreenShot(description, failAt) ==
    IF page = NoPage
    THEN Eff(NoPageResult, <<>>)
    ELSE LET log == Attempt(<<"page.screenshot">>, page, failAt)
         IN  IF failAt # 0
             THEN Eff(Throw(ErrOf(page)), log)
             ELSE [Eff(Str(<<"Screenshot taken successfully">>), log) EXCEPT
                      !.ss = page]

\* open_url whose catch block reports the failure without error.message
openURL_DropsCause(url, failAt) ==
    IF url = ""
    THEN Eff(Str(<<"URL is undefined">>), <<>>)
    ELSE IF page = NoPage
    THEN Eff(NoPageResult, <<>>)
    ELSE LET log == Attempt(<<"page.goto">>, page, failAt)
         IN  IF failAt # 0
             THEN Eff(Str(<<"Failed to navigate to ", url>>), log)
             ELSE Eff(Str(<<"Successfully navigated to ", url>>), log)

\* open_url
openURL(url, failAt) ==
    IF url = ""
    THEN Eff(Str(<<"URL is undefined">>), <<>>)
    ELSE IF page = NoPage
    THEN Eff(NoPageResult, <<>>)
    ELSE LET log == Attempt(<<"page.goto">>, page, failAt)
         IN  IF failAt # 0
             THEN Eff(Str(<<"Failed to navigate to ", url, ": ", ErrOf(page)>>), log)
             ELSE Eff(Str(<<"Successfully navigated to ", url>>), log)

\* click_screen with `||` for the `&&` of index.js:167
clickOnScreen_EitherAxis(x, y, failAt) ==
    IF page = NoPage
    THEN Eff(NoPageResult, <<>>)
    ELSE IF x # <<>> \/ y # <<>>
    THEN LET log == Attempt(<<"mouse.move", "waitForTimeout", "mouse.click",
                              "waitForTimeout">>, page, failAt)
         IN  IF failAt # 0
             THEN Eff(Str(<<"Failed to click at (", Fmt(x), ", ", Fmt(y), "): ",
                            ErrOf(page)>>), log)
             ELSE Eff(Str(<<"Clicked at (", Fmt(x), ", ", Fmt(y), ")">>), log)
    ELSE Eff(Str(<<"Coordinates are undefined">>), <<>>)

\* click_screen
clickOnScreen(x, y, failAt) ==
    IF page = NoPage
    THEN Eff(NoPageResult, <<>>)
    ELSE IF x # <<>> /\ y # <<>>
    THEN LET log == Attempt(<<"mouse.move", "waitForTimeout", "mouse.click",
                              "waitForTimeout">>, page, failAt)
         IN  IF failAt # 0
             THEN Eff(Str(<<"Failed to click at (", Fmt(x), ", ", Fmt(y), "): ",
                            ErrOf(page)>>), log)
             ELSE Eff(Str(<<"Clicked at (", Fmt(x), ", ", Fmt(y), ")">>), log)
    ELSE Eff(Str(<<"Coordinates are undefined">>), <<>>)

\* the operations send_keys performs for its coordinates
sendKeysOps(x, y) ==
    IF x # <<>> /\ y # <<>>
    THEN <<"mouse.click", "waitForTimeout", "keyboard.type">>
    ELSE <<"keyboard.type">>

\* send_keys
sendKeys(x, y, text, failAt) ==
    IF page = NoPage
    THEN Eff(NoPageResult, <<>>)
    ELSE LET log == Attempt(sendKeysOps(x, y), page, failAt)
         IN  IF failAt # 0
             THEN Eff(Str(<<"Failed to type text: ", ErrOf(page)>>), log)
             ELSE Eff(Str(<<"Typed: ", text>>), log)

\* double_click
doubleClick(x, y, failAt) ==
    IF page = NoPage
    THEN Eff(NoPageResult, <<>>)
    ELSE IF x # <<>> /\ y # <<>>
    THEN LET log == Attempt(<<"mouse.dblclick">>, page, failAt)
         IN  IF failAt # 0
             THEN Eff(Str(<<"Failed to double click at (", Fmt(x), ", ", Fmt(y),
                            "): ", ErrOf(page)>>), log)
             ELSE Eff(Str(<<"Double clicked at (", Fmt(x), ", ", Fmt(y), ")">>), log)
    ELSE Eff(Str(<<"Coordinates are undefined">>), <<>>)

\* scroll
scroll(deltaY, failAt) ==
    IF page = NoPage
    THEN Eff(NoPageResult, <<>>)
    ELSE LET log == Attempt(<<"mouse.wheel">>, page, failAt)
         IN  IF failAt # 0
             THEN Eff(Str(<<"Failed to scroll: ", ErrOf(page)>>), log)
             ELSE Eff(Str(<<"Scrolled by ", ToString(deltaY), " pixels vertically">>), log)

\* close_browser that puts browser.close() inside the `if (page)` block
closeBrowser_NeedsPage(pageThrows, browserThrows) ==
    LET pLog == <<Op("page.close", page, 0)>>
        bLog == <<Op("browser.close", 0, 0)>>
    IN  IF page = NoPage
        THEN Eff(Str(<<"Browser closed successfully">>), <<>>)
        ELSE IF pageThrows
        THEN Eff(Str(<<"Failed to close browser: ", CloseErr>>), pLog)
        ELSE IF browserThrows
        THEN [Eff(Str(<<"Failed to close browser: ", CloseErr>>), pLog \o bLog)
                 EXCEPT !.pages = pages \ {page}]
        ELSE [Eff(Str(<<"Browser closed successfully">>), pLog \o bLog)
                 EXCEPT !.pages = {}, !.browser = "closed"]

\* close_browser that assigns `page = undefined` once the page is closed
closeBrowser_ClearsPage(pageThrows, browserThrows) ==
    LET pLog == IF page # NoPage THEN <<Op("page.close", page, 0)>> ELSE <<>>
        bLog == <<Op("browser.close", 0, 0)>>
    IN  IF page # NoPage /\ pageThrows
        THEN Eff(Str(<<"Failed to close browser: ", CloseErr>>), pLog)
        ELSE IF browserThrows
        THEN [Eff(Str(<<"Failed to close browser: ", CloseErr>>), pLog \o bLog)
                 EXCEPT !.pages = pages \ {page}, !.page = NoPage]
        ELSE [Eff(Str(<<"Browser closed successfully">>), pLog \o bLog)
                 EXCEPT !.pages = {}, !.browser = "closed", !.page = NoPage]

\* close_browser: pageThrows / browserThrows say whether page.close() and
\* browser.close() throw when they are called
closeBrowser(pageThrows, browserThrows) ==
    LET pLog == IF page # NoPage THEN <<Op("page.close", page, 0)>> ELSE <<>>
        bLog == <<Op("browser.close", 0, 0)>>
    IN  IF page # NoPage /\ pageThrows
        THEN Eff(Str(<<"Failed to close browser: ", CloseErr>>), pLog)
        ELSE IF browserThrows
        THEN [Eff(Str(<<"Failed to close browser: ", CloseErr>>), pLog \o bLog)
                 EXCEPT !.pages = pages \ {page}]
        ELSE [Eff(Str(<<"Browser closed successfully">>), pLog \o bLog)
                 EXCEPT !.pages = {}, !.browser = "closed"]

----------------------------------------------------------------------------
(* fill_input.  A selector is the strategy it was built from (the          *)
(* identifier is the same in all of them).  The document answers each      *)
(* selector with the visibility of the elements it matches, in document    *)
(* order, or with an exception thrown by page.locator() or by isVisible(). *)

TypedSelector == "input[type][placeholder*=]"

BaseSelectors ==
    << "input[placeholder*=]", "input[aria-label*=]", "input[name*=]",
       "input[id*=]", "label:has-text + input",
       "//label[contains(text())]/following-sibling::input" >>

\* index.js:110-121: the chain, with the typed selector unshifted when
\* inputType is truthy
selectors(inputType) ==
    IF inputType # "" THEN <<TypedSelector>> \o BaseSelectors ELSE BaseSelectors

SelectorSet == {TypedSelector} \cup {BaseSelectors[i] : i \in 1..Len(BaseSelectors)}

Matches(vis) == [throws |-> "none", vis |-> vis]
LocatorThrows == [throws |-> "locator", vis |-> <<>>]
VisibleThrows == [throws |-> "isVisible", vis |-> <<>>]

\* locator(selector).first().isVisible(): the first match in document order
\* decides; no match is not visible
firstVisible(answer) == Len(answer.vis) > 0 /\ answer.vis[1]

\* index.js:126-136: the loop over the selectors from position i on.
\* `element` is the selector whose first match the variable holds ("" is null).
RECURSIVE resolve(_, _, _, _, _)
resolve(dom, sels, i, element, log) ==
    IF i > Len(sels)
    THEN [element |-> element, usedSelector |-> "", log |-> log]
    ELSE LET sel == sels[i]
             a == dom[sel]
             lLog == Append(log, Op("locator.first", page, i))
             vLog == Append(lLog, Op("isVisible", page, i))
         IN  IF a.throws = "locator"
             THEN resolve(dom, sels, i + 1, element, lLog)
             ELSE IF a.throws = "isVisible"
             THEN resolve(dom, sels, i + 1, sel, vLog)
             ELSE IF firstVisible(a)
             THEN [element |-> sel, usedSelector |-> sel, log |-> vLog]
             ELSE resolve(dom, sels, i + 1, sel, vLog)

\* position in the chain of the selector `element` was located with (0: null)
position(sels, element) ==
    IF element = "" THEN 0 ELSE CHOOSE i \in DOMAIN sels : sels[i] = element

\* fill_input: dom is the document's answer to each selector, fillThrows
\* says whether element.fill() throws when it is called.  The re-check of
\* index.js:138 and element.fill are logged with the position of the selector
\* of `element`.
fillInput(identifier, value, inputType, dom, fillThrows) ==
    IF page = NoPage
    THEN Eff(NoPageResult, <<>>)
    ELSE LET sels == selectors(inputType)
             r == resolve(dom, sels, 1, "", <<>>)
             at == position(sels, r.element)
             notFound == Str(<<"Input field for \"", identifier,
                               "\" not found or not visible">>)
             failed == Str(<<"Failed to fill input: ", ErrOf(page)>>)
             badSelector == Str(<<"Failed to fill input: ",
                                  IF Live(page) THEN SelectorErr ELSE ClosedErr>>)
             again == Append(r.log, Op("isVisible again", page, at))
             filling == Append(again, Op("element.fill", page, at))
         IN  IF r.element = ""
             THEN Eff(notFound, r.log)
             ELSE IF dom[r.element].throws = "isVisible"
             THEN Eff(badSelector, again)
             ELSE IF ~firstVisible(dom[r.element])
             THEN Eff(notFound, again)
             ELSE IF fillThrows
             THEN Eff(failed, filling)
             ELSE Eff(Str(<<"Filled \"", identifier, "\" with \"", value, "\"">>),
                      filling)

\* whether fill_input gets as far as element.fill (index.js:143)
reachesFill(inputType, dom) ==
    LET r == resolve(dom, selectors(inputType), 1, "", <<>>)
    IN  /\ page # NoPage
        /\ r.element # ""
        /\ dom[r.element].throws = "none"
        /\ firstVisible(dom[r.element])

\* the document answers no selector
EmptyDom == [s \in SelectorSet |-> Matches(<<>>)]

\* what a selector can answer besides "no match"
Answers == { Matches(<<TRUE>>), Matches(<<FALSE, TRUE>>), LocatorThrows, VisibleThrows }

\* Documents of an open page: at most one selector answers, or two selectors
\* answer and the second one with a visible element, or the typed selector
\* and the first untyped one both match a visible element.
LiveDoms ==
    {EmptyDom}
    \cup { [EmptyDom EXCEPT ![s] = a] : s \in SelectorSet, a \in Answers }
    \cup { [EmptyDom EXCEPT ![BaseSelectors[i]] = a,
                            ![BaseSelectors[j]] = Matches(<<TRUE>>)] :
             i \in {1, 5}, j \in {5, 6}, a \in Answers }
    \cup { [EmptyDom EXCEPT ![TypedSelector] = Matches(<<TRUE>>),
                            ![BaseSelectors[1]] = Matches(<<TRUE>>)] }

\* on a closed page every visibility check throws
ClosedDom == [s \in SelectorSet |-> VisibleThrows]

Doms == IF page = NoPage THEN {EmptyDom} ELSE IF Live(page) THEN LiveDoms ELSE {ClosedDom}

----------------------------------------------------------------------------
(* automate (index.js:337-354) *)

\* a catch block whose cleanup error escapes in place of `error`
automateCatch_MasksError(error, cleanupThrows) ==
    [raised |-> IF cleanupThrows THEN CloseErr ELSE error,
     ops |-> <<Op("browser.close", 0, 0)>>,
     browser |-> IF cleanupThrows THEN browser ELSE "closed",
     pages |-> IF cleanupThrows THEN pages ELSE {}]

\* the catch block: the run failed with `error`; browser.close() is tried
\* and throws exactly when cleanupThrows; then `error` is rethrown
automateCatch(error, cleanupThrows) ==
    [raised |-> error,
     ops |-> <<Op("browser.close", 0, 0)>>,
     browser |-> IF cleanupThrows THEN browser ELSE "closed",
     pages |-> IF cleanupThrows THEN pages ELSE {}]

\* websiteAutomationAgent.tools (index.js:333): the catalog given to the oracle
tools ==
    << "open_browser", "open_url", "take_screenshot", "click_screen", "scroll",
       "send_keys", "double_click", "close_browser", "fill_input" >>

----------------------------------------------------------------------------
(* The state machine *)

Init ==
    /\ page = NoPage
    /\ browser = "launched"
    /\ pages = {}
    /\ nPages = 0
    /\ ss = 0
    /\ call = [tool |-> "none"]
    /\ result = Str(<<>>)
    /\ ops = <<>>
    /\ pc = "running"
    /\ raised = ""
    /\ closeRequested = FALSE

\* The runner invokes an executor and takes what it returns.  `c` records the
\* tool, its input and the outcome of the browser operations of this call.
Invoke(c, e) ==
    /\ pc = "running"
    /\ c.tool \in {tools[i] : i \in DOMAIN tools}
    /\ call' = c
    /\ closeRequested' = (closeRequested \/ c.tool = "close_browser")
    /\ result' = e.result
    /\ ops' = e.ops
    /\ page' = e.page
    /\ browser' = e.browser
    /\ pages' = e.pages
    /\ nPages' = e.nPages
    /\ ss' = e.ss
    /\ UNCHANGED <<pc, raised>>

OpenBrowser ==
    /\ nPages < MaxPages
    /\ \E throws \in (IF browser = "closed" THEN {TRUE} ELSE BOOLEAN) :
          Invoke([tool |-> "open_browser", throws |-> throws], openBrowser(throws))

TakeScreenshot ==
    \E d \in Descriptions, failAt \in Fails(1, page) :
        Invoke([tool |-> "take_screenshot", description |-> d, failAt |-> failAt],
               takeScreenShot(d, failAt))

OpenUrl ==
    \E url \in Urls, failAt \in Fails(1, page) :
        Invoke([tool |-> "open_url", url |-> url, failAt |-> failAt],
               openURL(url, failAt))

FillInput ==
    \E id \in Idents, v \in Values, t \in InputTypes, dom \in Doms :
      \E fillThrows \in (IF reachesFill(t, dom) THEN BOOLEAN ELSE {FALSE}) :
        Invoke([tool |-> "fill_input", identifier |-> id, value |-> v,
                inputType |-> t, dom |-> dom, fillThrows |-> fillThrows],
               fillInput(id, v, t, dom, fillThrows))

ClickScreen ==
    \E x \in Coords, y \in Coords, failAt \in Fails(4, page) :
        Invoke([tool |-> "click_screen", x |-> x, y |-> y, failAt |-> failAt],
               clickOnScreen(x, y, failAt))

SendKeys ==
    \E x \in Coords, y \in Coords, text \in Texts :
        \E failAt \in Fails(Len(sendKeysOps(x, y)), page) :
            Invoke([tool |-> "send_keys", x |-> x, y |-> y, text |-> text,
                    failAt |-> failAt],
                   sendKeys(x, y, text, failAt))

DoubleClick ==
    \E x \in Coords, y \in Coords, failAt \in Fails(1, page) :
        Invoke([tool |-> "double_click", x |-> x, y |-> y, failAt |-> failAt],
               doubleClick(x, y, failAt))

Scroll ==
    \E d \in Deltas, failAt \in Fails(1, page) :
        Invoke([tool |-> "scroll", deltaY |-> d, failAt |-> failAt],
               scroll(d, failAt))

CloseBrowser ==
    \E pageThrows \in BOOLEAN, browserThrows \in BOOLEAN :
        Invoke([tool |-> "close_browser", pageThrows |-> pageThrows,
                browserThrows |-> browserThrows],
               closeBrowser(pageThrows, browserThrows))

\* automate closing the browser before it returns the result
Finish_ClosesBrowser ==
    /\ pc = "running"
    /\ pc' = "done"
    /\ call' = [tool |-> "final_answer"]
    /\ ops' = <<Op("browser.close", 0, 0)>>
    /\ browser' = "closed"
    /\ pages' = {}
    /\ UNCHANGED <<page, nPages, ss, result, raised, closeRequested>>

\* the oracle gives its final answer: automate returns the result
Finish ==
    /\ pc = "running"
    /\ pc' = "done"
    /\ call' = [tool |-> "final_answer"]
    /\ ops' = <<>>
    /\ UNCHANGED <<page, browser, pages, nPages, ss, result, raised,
                   closeRequested>>

\* runner.run rejects: the catch block runs and automate throws
RunFails ==
    /\ pc = "running"
    /\ \E error \in RunErrors, cleanupThrows \in BOOLEAN :
          LET c == automateCatch(error, cleanupThrows)
          IN  /\ raised' = c.raised
              /\ ops' = c.ops
              /\ browser' = c.browser
              /\ pages' = c.pages
    /\ pc' = "failed"
    /\ call' = [tool |-> "automate.catch"]
    /\ UNCHANGED <<page, nPages, ss, result, closeRequested>>

Next ==
    \/ OpenBrowser
    \/ TakeScreenshot
    \/ OpenUrl
    \/ FillInput
    \/ ClickScreen
    \/ SendKeys
    \/ DoubleClick
    \/ Scroll
    \/ CloseBrowser
    \/ Finish
    \/ RunFails

Spec == Init /\ [][Next]_vars

TypeOK ==
    /\ page \in 0..nPages
    /\ browser \in {"launched", "closed"}
    /\ pages \subseteq 1..nPages
    /\ nPages \in 0..MaxPages
    /\ ss \in 0..nPages
    /\ result.thrown \in BOOLEAN
    /\ pc \in {"running", "done", "failed"}
    /\ closeRequested \in BOOLEAN
    /\ (browser = "closed" => pages = {})

----------------------------------------------------------------------------
(* Properties *)

\* the executors that need a page
PageTools ==
    {"take_screenshot", "open_url", "fill_input", "click_screen", "send_keys",
     "double_click", "scroll"}

Contains(text, part) == \E i \in DOMAIN text : text[i] = part
Attempted(log, name) == \E i \in DOMAIN log : log[i].op = name

SessionUnchanged == page' = page /\ browser' = browser /\ pages' = pages

\* C1 as stated: with no page opened, every executor other than open_browser
\* and close_browser returns the 'No browser page available' result, performs
\* no browser operation and leaves the page reference and the process unchanged.
C1_AsStated ==
    [][(page = NoPage /\ call'.tool \in PageTools)
         => (result' = NoPageResult /\ ops' = <<>> /\ SessionUnchanged)]_vars

\* C1 amended: as C1, except that open_url called with an empty url returns
\* 'URL is undefined' (its url check comes before its page check); it still
\* performs no browser operation and changes nothing.
C1_NoPageFailsFast ==
    [][(page = NoPage /\ call'.tool \in PageTools)
         => /\ \/ result' = NoPageResult
               \/ /\ call'.tool = "open_url"
                  /\ call'.url = ""
                  /\ result' = Str(<<"URL is undefined">>)
            /\ (call'.tool = "open_url" /\ call'.url = ""
                  => result' = Str(<<"URL is undefined">>))
            /\ ops' = <<>>
            /\ SessionUnchanged]_vars

C1_Witness ==
    /\ page = NoPage
    /\ nPages = 0
    /\ call.tool \in PageTools \ {"open_url"}
    /\ result = NoPageResult
    /\ ops = <<>>

\* C2: open_browser invoked while a page exists returns a reported error (it
\* does not throw), creates no second page and leaves the page reference
\* unchanged.
C2_SecondOpenFails ==
    [][(page # NoPage /\ call'.tool = "open_browser")
         => /\ ~result'.thrown
            /\ result' # Str(<<"Opened Browser">>)
            /\ page' = page
            /\ pages' = pages
            /\ nPages' = nPages]_vars

\* C3: the browser process holds at most one open page, and no page is open
\* that the page reference does not point to.
C3_AtMostOnePage == Cardinality(pages) <= 1 /\ pages \subseteq {page}

\* C4: after close_browser has run the page reference is empty, and the
\* page-using executor called next performs no operation on the closed page.
C4_CloseEmptiesPage ==
    [][/\ call'.tool = "close_browser" => page' = NoPage
       /\ (call.tool = "close_browser" /\ call'.tool \in PageTools)
            => ops' = <<>>]_vars

\* C5: no executor throws: in every state and for every outcome of the browser
\* operations, what execute produced is a returned string.
C5_NoExecutorThrows == ~result.thrown

\* C6: when the run fails, automate attempts browser.close() exactly once and
\* the error that leaves automate is the run's error, whether the teardown
\* succeeds or throws.
C6_OriginalErrorRethrown ==
    pc = "failed" => /\ raised \in RunErrors
                     /\ ops = <<Op("browser.close", 0, 0)>>

\* the run failed with a page open and the teardown threw
C6_Witness ==
    /\ pc = "failed"
    /\ raised \in RunErrors
    /\ browser = "launched"
    /\ pages # {}

\* C7: close_browser called with no page does not throw, does not call
\* page.close() and still calls browser.close().
C7_CloseWithoutPage ==
    [][(page = NoPage /\ call'.tool = "close_browser")
         => /\ ~result'.thrown
            /\ ~Attempted(ops', "page.close")
            /\ Attempted(ops', "browser.close")
            /\ (~call'.browserThrows => browser' = "closed")]_vars

C7_Witness ==
    /\ call.tool = "close_browser"
    /\ page = NoPage
    /\ ops = <<Op("browser.close", 0, 0)>>
    /\ browser = "closed"
    /\ result = Str(<<"Browser closed successfully">>)

\* C8: when page.goto throws with a page open, open_url returns a failure
\* string holding the url and the error's message, and the page reference, the
\* open pages and the process are unchanged.
C8_NavigationFailureReported ==
    [][(page # NoPage /\ call'.tool = "open_url" /\ call'.url # ""
          /\ call'.failAt # 0)
         => /\ ~result'.thrown
            /\ result'.text[1] = "Failed to navigate to "
            /\ Contains(result'.text, call'.url)
            /\ Contains(result'.text, ErrOf(page))
            /\ SessionUnchanged]_vars

\* navigation failed on an open page, which is still the session's page
C8_Witness ==
    /\ call.tool = "open_url"
    /\ call.failAt # 0
    /\ Live(page)
    /\ result = Str(<<"Failed to navigate to ", call.url, ": ", LiveErr>>)

CoordinateTools == {"click_screen", "double_click", "send_keys"}

MissingAxis(c) == c.x = <<>> \/ c.y = <<>>

\* C9 as stated: click_screen, double_click and send_keys with a page open and
\* a missing x or y return 'Coordinates are undefined' and send no pointer or
\* keyboard event.
C9_AsStated ==
    [][(page # NoPage /\ call'.tool \in CoordinateTools /\ MissingAxis(call'))
         => (result' = Str(<<"Coordinates are undefined">>) /\ ops' = <<>>)]_vars

\* C9 amended: click_screen and double_click do so; send_keys with a missing
\* x or y sends no pointer event but still types the text at the current focus,
\* returning 'Typed: <text>', or 'Failed to type text: ...' when typing throws.
C9_MissingCoordinates ==
    [][(page # NoPage /\ call'.tool \in CoordinateTools /\ MissingAxis(call'))
         => IF call'.tool = "send_keys"
            THEN /\ ops' = <<Op("keyboard.type", page, 0)>>
                 /\ result' = IF call'.failAt = 0
                              THEN Str(<<"Typed: ", call'.text>>)
                              ELSE Str(<<"Failed to type text: ", ErrOf(page)>>)
            ELSE /\ result' = Str(<<"Coordinates are undefined">>)
                 /\ ops' = <<>>]_vars

\* click_screen on an open page with y but no x
C9_Witness ==
    /\ call.tool = "click_screen"
    /\ call.x = <<>>
    /\ call.y # <<>>
    /\ Live(page)
    /\ result = Str(<<"Coordinates are undefined">>)
    /\ ops = <<>>

\* no selector of the chain matches a visible element
NoVisibleMatch(c) ==
    \A i \in DOMAIN selectors(c.inputType) :
        \A k \in DOMAIN c.dom[selectors(c.inputType)[i]].vis :
            ~c.dom[selectors(c.inputType)[i]].vis[k]

\* C10: when no strategy of the chain yields a visible element, fill_input
\* never calls element.fill and returns the not-found result naming the
\* identifier.
C10_NotFoundWhenNothingVisible ==
    [][(page # NoPage /\ call'.tool = "fill_input" /\ NoVisibleMatch(call'))
         => /\ ~Attempted(ops', "element.fill")
            /\ result' = Str(<<"Input field for \"", call'.identifier,
                               "\" not found or not visible">>)]_vars


notFoundResult(identifier) ==
    Str(<<"Input field for \"", identifier, "\" not found or not visible">>)

\* how often the chain position i was located in the log
Tries(log, i) ==
    Cardinality({k \in DOMAIN log : log[k].op = "locator.first" /\ log[k].sel = i})

\* C11: for an identifier with no matching visible element, resolution tries
\* each strategy at most once and fill_input returns the not-found result, not
\* the generic failure, also when strategies throw.
C11_NotFoundDespiteThrows ==
    [][(page # NoPage /\ call'.tool = "fill_input" /\ NoVisibleMatch(call'))
         => /\ \A i \in DOMAIN selectors(call'.inputType) : Tries(ops', i) <= 1
            /\ result'.text[1] # "Failed to fill input: "
            /\ result' = notFoundResult(call'.identifier)]_vars


AttributeSelectors == {TypedSelector} \cup {BaseSelectors[i] : i \in 1..4}
LabelSelectors == {BaseSelectors[5], BaseSelectors[6]}

\* the selector matches an element that is visible
HasVisible(answer) == \E k \in DOMAIN answer.vis : answer.vis[k]

\* the selectors of the call's chain
Chain(c) == {selectors(c.inputType)[i] : i \in DOMAIN selectors(c.inputType)}

\* the call ended in element.fill on the first match of a selector in S
FilledFrom(c, log, S) ==
    /\ log # <<>>
    /\ log[Len(log)].op = "element.fill"
    /\ selectors(c.inputType)[log[Len(log)].sel] \in S

\* C12: when both an attribute-match candidate and a label-text-match candidate
\* are visible, fill_input fills the attribute-match candidate; with an
\* inputType hint the type-scoped selector is the first one tried.
C12_AttributeBeforeLabel ==
    [][(/\ page # NoPage
        /\ call'.tool = "fill_input"
        /\ \E s \in Chain(call') \cap AttributeSelectors : HasVisible(call'.dom[s])
        /\ \E s \in LabelSelectors : HasVisible(call'.dom[s]))
         => /\ FilledFrom(call', ops', AttributeSelectors)
            /\ (call'.inputType # ""
                  => /\ selectors(call'.inputType)[1] = TypedSelector
                     /\ ops'[1] = Op("locator.first", page, 1))]_vars

\* no selector of the chain throws
NoThrow(c) == \A s \in Chain(c) : c.dom[s].throws = "none"

\* position of the first selector of the chain that matches a visible element
FirstWithVisible(c) ==
    CHOOSE i \in DOMAIN selectors(c.inputType) :
        /\ HasVisible(c.dom[selectors(c.inputType)[i]])
        /\ \A j \in 1..(i - 1) : ~HasVisible(c.dom[selectors(c.inputType)[j]])

\* C15: fill_input fills the first visible match in strategy order, then
\* document order: a strategy whose first match is hidden and whose later
\* match is visible still resolves to its visible element.
C15_FirstVisibleInDocumentOrder ==
    [][(/\ page # NoPage
        /\ call'.tool = "fill_input"
        /\ NoThrow(call')
        /\ \E s \in Chain(call') : HasVisible(call'.dom[s]))
         => /\ Attempted(ops', "element.fill")
            /\ ops'[Len(ops')].sel = FirstWithVisible(call')]_vars


\* C14: while the run is going on, the tool catalog offers the oracle the
\* batch fill operation fill_form_fields.
C14_BatchFillOffered ==
    pc = "running" => \E i \in DOMAIN tools : tools[i] = "fill_form_fields"

\* position of the first attempt of the operation in the log (0: none)
FirstAt(log, name) ==
    IF Attempted(log, name)
    THEN CHOOSE i \in DOMAIN log :
             log[i].op = name /\ \A j \in 1..(i - 1) : log[j].op # name
    ELSE 0

\* C16: close_browser closes the page before the process, and an error while
\* closing the page does not prevent the process close: whenever close_browser
\* returns, browser.close() has been called, after page.close() if there is
\* a page.
C16_ProcessAlwaysClosed ==
    [][call'.tool = "close_browser"
         => /\ ~result'.thrown
            /\ Attempted(ops', "browser.close")
            /\ (page # NoPage
                  => /\ Attempted(ops', "page.close")
                     /\ FirstAt(ops', "page.close") < FirstAt(ops', "browser.close"))
            /\ (~call'.browserThrows => browser' = "closed")]_vars

\* C17: only open_browser writes the page reference, so once a page has been
\* opened the reference is never empty again.
C17_OnlyOpenWritesPage ==
    [][/\ call'.tool # "open_browser" => page' = page
       /\ page # NoPage => page' # NoPage]_vars

\* close_browser and the failure cleanup have both run with a page opened
\* before, and the reference still holds it
C17_Witness ==
    /\ pc = "failed"
    /\ closeRequested
    /\ browser = "closed"
    /\ page # NoPage

\* the result says the executor did what it was asked to
Succeeded(r) ==
    /\ ~r.thrown
    /\ r.text # <<>>
    /\ r.text[1] \in {"Opened Browser", "Screenshot taken successfully",
                      "Successfully navigated to ", "Filled \"", "Clicked at (",
                      "Typed: ", "Double clicked at (", "Scrolled by "}

\* C18: once the browser process is closed it stays closed: a later
\* open_browser throws and produces no page, and no later page-using executor
\* succeeds.
C18_CloseIsIrreversible ==
    [][browser = "closed"
         => /\ browser' = "closed"
            /\ pages' = {}
            /\ page' = page
            /\ nPages' = nPages
            /\ (call'.tool \in PageTools \cup {"open_browser"} => ~Succeeded(result'))
            /\ (call'.tool = "open_browser" => result'.thrown)]_vars

\* open_browser was called after the process was closed
C18_Witness ==
    /\ browser = "closed"
    /\ closeRequested
    /\ call.tool = "open_browser"
    /\ result = Throw(ClosedErr)

====
